---- MODULE Spec2Model ----
(***************************************************************************)
(* labelqa: the rule evaluators and dispatcher (rules.py), the schema      *)
(* validator (config.py) and the validate command (cli.py).                *)
(*                                                                         *)
(* Python values are modelled as follows.                                  *)
(*   str            a sequence of one-character strings                    *)
(*   cell value     [k, n, s]: k = "null" (NaN/None), "num" (n) or "str"   *)
(*                  (s)                                                    *)
(*   float          an exact rational [nan, num, den]; the row counts of   *)
(*                  the model are small enough that the IEEE results of    *)
(*                  the divisions and products of the code are exact       *)
(*   +/- infinity   [inf, n] with inf = 1 / -1; a finite number has inf=0  *)
(*   dict           a function from keys to values; d.get(k, v) is         *)
(*                  IF k \in DOMAIN d THEN d[k] ELSE v                     *)
(*   exception      an outcome [raised |-> TRUE, exc |-> ...]              *)
(*   None           the empty tuple; a value v that may be None is <<v>>   *)
(*   DataFrame      [nrows, col]: col maps each column name to its dtype   *)
(*                  name and its nrows cell values                         *)
(***************************************************************************)
EXTENDS Integers, Sequences, FiniteSets, TLC

VARIABLES df, schema, rules_cfg, report, report_json, pc, results,
          schema_results, exit_code, exc, out, written

vars == <<df, schema, rules_cfg, report, report_json, pc, results,
          schema_results, exit_code, exc, out, written>>

\* -------------------------------------------------------------- bounds
\* Largest number of rows of a dataset.
MaxRows == 3
\* Largest number of rules of a rule list.
MaxRules == 2
\* Largest number of entries of a schema's required list.
MaxRequired == 2

\* -------------------------------------------------------- python values
Null == [k |-> "null", n |-> 0, s |-> <<>>]
Num(n) == [k |-> "num", n |-> n, s |-> <<>>]
Str(s) == [k |-> "str", n |-> 0, s |-> s]

\* An optional value: <<>> is None, <<v>> is v.
None == <<>>
Some(v) == <<v>>

\* Outcome of a call: a returned value or a raised exception. `names` are
\* the names the exception's message carries.
Return(v) == [raised |-> FALSE, value |-> v]
Raise(type, msg, names) ==
    [raised |-> TRUE, exc |-> [type |-> type, msg |-> msg, names |-> names]]

NoExc == [type |-> "none", msg |-> "", names |-> {}]

\* df[col] on a column that is not in the frame.
KeyError(c) == Raise("KeyError", "", {c})

\* floats
NaN == [nan |-> TRUE, num |-> 0, den |-> 1]
Frac(a, b) == [nan |-> FALSE, num |-> a, den |-> b]
Zero == Frac(0, 1)
\* a > b and a < b of two floats: False when either is NaN.
FracGt(a, b) == ~a.nan /\ ~b.nan /\ a.num * b.den > b.num * a.den
FracLt(a, b) == FracGt(b, a)
FracEq(a, b) == ~a.nan /\ ~b.nan /\ a.num * b.den = b.num * a.den

\* numbers extended with the infinities (np.inf, float("inf"))
Fin(n) == [inf |-> 0, n |-> n]
PosInf == [inf |-> 1, n |-> 0]
NegInf == [inf |-> -1, n |-> 0]
\* x < b, x > b for a finite number x and an extended bound b
LtExt(x, b) == IF b.inf = 0 THEN x < b.n ELSE b.inf = 1
GtExt(x, b) == IF b.inf = 0 THEN x > b.n ELSE b.inf = -1
LeExt(x, b) == IF b.inf = 0 THEN x <= b.n ELSE b.inf = 1
GeExt(x, b) == IF b.inf = 0 THEN x >= b.n ELSE b.inf = -1

\* dict.get(key, default)
Get(d, key, default) == IF key \in DOMAIN d THEN d[key] ELSE default

\* ------------------------------------------------------------- strings
Digits == <<"0", "1", "2", "3", "4", "5", "6", "7", "8", "9">>
IsDigit(c) == \E d \in 1..10 : Digits[d] = c
DigitVal(c) == (CHOOSE d \in 1..10 : Digits[d] = c) - 1

\* str(n) of an int
RECURSIVE IntStr(_)
IntStr(n) ==
    IF n < 0 THEN <<"-">> \o IntStr(0 - n)
    ELSE IF n < 10 THEN <<Digits[n + 1]>>
    ELSE IntStr(n \div 10) \o <<Digits[(n % 10) + 1]>>

\* the number a string of digits writes
RECURSIVE DigitsVal(_)
DigitsVal(s) ==
    IF Len(s) = 0 THEN 0
    ELSE 10 * DigitsVal(SubSeq(s, 1, Len(s) - 1)) + DigitVal(s[Len(s)])

\* s.startswith(p)
StartsWith(s, p) == Len(p) <= Len(s) /\ SubSeq(s, 1, Len(p)) = p
\* p in s (substring)
Contains(s, p) ==
    \E i \in 0..(Len(s) - Len(p)) : SubSeq(s, i + 1, i + Len(p)) = p

Lower(c) == IF c = "A" THEN "a" ELSE IF c = "B" THEN "b" ELSE c
LowerStr(s) == [i \in 1..Len(s) |-> Lower(s[i])]

\* dtype names and rule parameters that are strings
T_int64 == <<"i", "n", "t", "6", "4">>
T_int32 == <<"i", "n", "t", "3", "2">>
T_int == <<"i", "n", "t">>
T_float64 == <<"f", "l", "o", "a", "t", "6", "4">>
T_float32 == <<"f", "l", "o", "a", "t", "3", "2">>
T_float == <<"f", "l", "o", "a", "t">>
T_object == <<"o", "b", "j", "e", "c", "t">>
T_string == <<"s", "t", "r", "i", "n", "g">>
S_IGNORECASE == <<"I", "G", "N", "O", "R", "E", "C", "A", "S", "E">>
S_nan == <<"n", "a", "n">>

\* ----------------------------------------------------------- DataFrame
\* len(df)
RowCount(d) == d.nrows
\* df.columns
Columns(d) == DOMAIN d.col
\* number of True entries of a boolean mask: int(mask.sum())
MaskSum(mask) == Cardinality({i \in DOMAIN mask : mask[i]})

\* series.astype(str) on one cell of a column of dtype `dtype`: NaN becomes
\* the text "nan", a float prints with its fraction digits.
AsTypeStr(dtype, v) ==
    IF v.k = "null" THEN Str(S_nan)
    ELSE IF v.k = "str" THEN v
    ELSE IF StartsWith(dtype, T_float) THEN Str(IntStr(v.n) \o <<".", "0">>)
    ELSE Str(IntStr(v.n))

\* series.fillna(fill) on one cell
FillNa(v, fill) == IF v.k = "null" THEN fill ELSE v

\* series.isna() on one cell
IsNa(v) == v.k = "null"

\* pd.to_numeric(series, errors="coerce") on one cell: a number, the number
\* a string of digits writes, and NaN for anything else.
ToNumeric(v) ==
    IF v.k = "num" THEN Frac(v.n, 1)
    ELSE IF v.k = "str" /\ Len(v.s) > 0 /\ \A i \in 1..Len(v.s) : IsDigit(v.s[i])
         THEN Frac(DigitsVal(v.s), 1)
    ELSE NaN

\* mask.mean(): NaN on an empty mask
Mean(mask) ==
    IF Len(mask) = 0 THEN NaN ELSE Frac(MaskSum(mask), Len(mask))

\* series.nunique(dropna=False): NaN counts as one value
NUnique(vals) == Cardinality({vals[i] : i \in DOMAIN vals})

\* series.str.match(pattern, flags): re.match anchors at the start of the
\* text. Patterns are literal texts.
StrMatch(text, pattern, ignorecase) ==
    IF ignorecase THEN StartsWith(LowerStr(text), LowerStr(pattern))
    ELSE StartsWith(text, pattern)

\* ---------------------------------------------------------- RuleResult
RuleResult(name, type, status, n_violations, fraction_violations, details) ==
    [name |-> name, type |-> type, status |-> status,
     n_violations |-> n_violations,
     fraction_violations |-> fraction_violations, details |-> details]

\* The tail shared by the per-row rules: count the mask, divide by the row
\* count (0.0 on an empty frame), fail on any violation.
MaskResult(d, rule, mask, details) ==
    LET n == MaskSum(mask)
        frac == IF RowCount(d) # 0 THEN Frac(n, RowCount(d)) ELSE Zero
    IN Return(RuleResult(rule["name"], rule["type"],
                         IF n > 0 THEN "fail" ELSE "pass", n, frac, details))

\* ----------------------------------------------------------- rule_regex
RegexMask(matches, fail_on_match) ==
    [i \in DOMAIN matches |-> IF fail_on_match THEN matches[i] ELSE ~matches[i]]

rule_regex(d, rule) ==
    LET col == rule["column"]
        pattern == rule["pattern"]
        flags == Get(rule, "flags", <<>>)
        fail_on_match == Get(rule, "fail_on_match", FALSE)
        ignorecase == Contains(flags, S_IGNORECASE)
    IN IF col \notin Columns(d) THEN KeyError(col)
       ELSE LET c == d.col[col]
                series == [i \in 1..RowCount(d) |->
                             FillNa(AsTypeStr(c.dtype, c.vals[i]), Str(<<>>))]
                matches == [i \in 1..RowCount(d) |->
                              StrMatch(series[i].s, pattern, ignorecase)]
            IN MaskResult(d, rule, RegexMask(matches, fail_on_match),
                          [column |-> col])

\* --------------------------------------------------- rule_numeric_range
\* The mask with the exclusive branch lost: `inclusive` is not looked at.
NumericViolationInclusiveOnly(x, min_v, max_v, inclusive) ==
    IF x.nan THEN FALSE
    ELSE LtExt(x.num, min_v) \/ GtExt(x.num, max_v)

\* One entry of the violation mask; every comparison with NaN is False.
NumericViolation(x, min_v, max_v, inclusive) ==
    IF x.nan THEN FALSE
    ELSE IF inclusive THEN LtExt(x.num, min_v) \/ GtExt(x.num, max_v)
    ELSE LeExt(x.num, min_v) \/ GeExt(x.num, max_v)

rule_numeric_range(d, rule) ==
    LET col == rule["column"]
        min_v == Get(rule, "min", NegInf)
        max_v == Get(rule, "max", PosInf)
        inclusive == Get(rule, "inclusive", TRUE)
    IN IF col \notin Columns(d) THEN KeyError(col)
       ELSE LET series == [i \in 1..RowCount(d) |-> ToNumeric(d.col[col].vals[i])]
                mask == [i \in 1..RowCount(d) |->
                           NumericViolation(series[i], min_v, max_v, inclusive)]
            IN MaskResult(d, rule, mask,
                          [column |-> col, min |-> min_v, max |-> max_v,
                           inclusive |-> inclusive])

\* -------------------------------------------------- rule_allowed_values
\* The mask with null cells dropped from the check.
NotAllowedSkipNull(v, values) == v.k # "null" /\ ~(v \in values)

\* One entry of ~series.isin(values)
NotAllowed(v, values) == ~(v \in values)

rule_allowed_values(d, rule) ==
    LET col == rule["column"]
        values == rule["values"]
    IN IF col \notin Columns(d) THEN KeyError(col)
       ELSE LET mask == [i \in 1..RowCount(d) |->
                           NotAllowed(d.col[col].vals[i], values)]
            IN MaskResult(d, rule, mask, [column |-> col, values |-> values])

\* --------------------------------------------------- rule_null_fraction
\* int(x) of a float: truncation, and ValueError on NaN
IntOfNaN == Raise("ValueError", "cannot convert float NaN to integer", {})
Trunc(a, b) == IF a >= 0 THEN a \div b ELSE 0 - ((0 - a) \div b)

rule_null_fraction(d, rule) ==
    LET col == rule["column"]
        max_fraction == rule["max_fraction"]
    IN IF col \notin Columns(d) THEN KeyError(col)
       ELSE LET vals == d.col[col].vals
                frac_null == Mean([i \in 1..RowCount(d) |-> IsNa(vals[i])])
                status == IF FracGt(frac_null, max_fraction) THEN "fail" ELSE "pass"
            IN IF frac_null.nan THEN IntOfNaN
               ELSE Return(RuleResult(rule["name"], rule["type"], status,
                        Trunc(frac_null.num * RowCount(d), frac_null.den),
                        frac_null,
                        [column |-> col, max_fraction |-> max_fraction]))

\* ------------------------------------------------- rule_unique_fraction
\* 1 - float(uniq_frac)
OneMinus(f) == Frac(f.den - f.num, f.den)

rule_unique_fraction(d, rule) ==
    LET col == rule["column"]
        min_fraction == rule["min_fraction"]
    IN IF col \notin Columns(d) THEN KeyError(col)
       ELSE LET vals == d.col[col].vals
                uniq_frac == IF RowCount(d) # 0
                             THEN Frac(NUnique(vals), RowCount(d)) ELSE Zero
                status == IF FracLt(uniq_frac, min_fraction) THEN "fail" ELSE "pass"
                n_viol == RowCount(d) - NUnique(vals)
            IN Return(RuleResult(rule["name"], rule["type"], status, n_viol,
                        OneMinus(uniq_frac),
                        [column |-> col, min_fraction |-> min_fraction]))

\* ---------------------------------------------------- rule_length_range
LengthViolation(length, min_len, max_len) ==
    LtExt(length, min_len) \/ GtExt(length, max_len)

rule_length_range(d, rule) ==
    LET col == rule["column"]
        min_len == Get(rule, "min_len", Fin(0))
        max_len == Get(rule, "max_len", PosInf)
    IN IF col \notin Columns(d) THEN KeyError(col)
       ELSE LET c == d.col[col]
                lengths == [i \in 1..RowCount(d) |->
                              Len(AsTypeStr(c.dtype, c.vals[i]).s)]
                mask == [i \in 1..RowCount(d) |->
                           LengthViolation(lengths[i], min_len, max_len)]
            IN MaskResult(d, rule, mask,
                          [column |-> col, min_len |-> min_len, max_len |-> max_len])

\* -------------------------------------------------- rule_duplicate_rows
SeqToSet(s) == {s[i] : i \in DOMAIN s}

\* df.duplicated(subset=subset, keep=False). pandas returns an empty mask
\* for a frame with no rows or no columns before it looks at `subset`; it
\* raises KeyError for the subset's columns that the frame lacks; every
\* member of a group of equal rows is marked, NaN equal to NaN.
Duplicated(d, subset) ==
    LET cols == IF subset = None THEN Columns(d) ELSE SeqToSet(subset[1])
        diff == cols \ Columns(d)
    IN IF RowCount(d) = 0 \/ Columns(d) = {} THEN Return(<<>>)
       ELSE IF diff # {} THEN Raise("KeyError", "", diff)
       ELSE Return([i \in 1..RowCount(d) |->
                      \E j \in 1..RowCount(d) :
                          /\ j # i
                          /\ \A c \in cols : d.col[c].vals[j] = d.col[c].vals[i]])

rule_duplicate_rows(d, rule) ==
    LET subset == IF "subset" \in DOMAIN rule THEN Some(rule["subset"]) ELSE None
        max_fraction == Get(rule, "max_fraction", Zero)
        dup == Duplicated(d, subset)
    IN IF dup.raised THEN dup
       ELSE LET dup_mask == dup.value
                frac == Mean(dup_mask)
                status == IF FracGt(frac, max_fraction) THEN "fail" ELSE "pass"
            IN Return(RuleResult(rule["name"], rule["type"], status,
                        MaskSum(dup_mask), frac,
                        [subset |-> subset, max_fraction |-> max_fraction]))

\* -------------------------------------------------------- RULE_DISPATCH
\* The registry's keys, and the call of the evaluator registered for a key.
RULE_DISPATCH ==
    {"regex", "numeric_range", "allowed_values", "null_fraction",
     "unique_fraction", "length_range", "duplicate_rows"}

Dispatch(rtype, d, rule) ==
    CASE rtype = "regex" -> rule_regex(d, rule)
      [] rtype = "numeric_range" -> rule_numeric_range(d, rule)
      [] rtype = "allowed_values" -> rule_allowed_values(d, rule)
      [] rtype = "null_fraction" -> rule_null_fraction(d, rule)
      [] rtype = "unique_fraction" -> rule_unique_fraction(d, rule)
      [] rtype = "length_range" -> rule_length_range(d, rule)
      [] rtype = "duplicate_rows" -> rule_duplicate_rows(d, rule)

\* ------------------------------------------------------ Schema.validate
\* The first loop with its test turned round: the entries that are columns
\* of the frame are reported.
MissingErrorsOfPresent(required, d) ==
    LET present == SelectSeq(required, LAMBDA c : c \in Columns(d))
    IN [i \in 1..Len(present) |->
          [type |-> "missing_required_column", column |-> present[i]]]

\* The first loop: one error for every entry of `required` that is not a
\* column of the frame, in the order of the list.
MissingErrors(required, d) ==
    LET absent == SelectSeq(required, LAMBDA c : c \notin Columns(d))
    IN [i \in 1..Len(absent) |->
          [type |-> "missing_required_column", column |-> absent[i]]]

\* The two branches of the type check of one present column.
WrongDtype(expected_dtype, actual) ==
    IF expected_dtype = T_string
    THEN actual \notin {T_string, T_object}
    ELSE ~StartsWith(actual, expected_dtype) /\ ~Contains(actual, expected_dtype)

\* The second loop, over the items of the columns mapping (a dict keeps the
\* order of its keys): a sequence of <<name, expected dtype>> pairs.
RECURSIVE TypeErrors(_, _)
TypeErrors(columns, d) ==
    IF columns = <<>> THEN <<>>
    ELSE LET col == Head(columns)[1]
             expected_dtype == Head(columns)[2]
             rest == TypeErrors(Tail(columns), d)
         IN IF col \in Columns(d) /\ WrongDtype(expected_dtype, d.col[col].dtype)
            THEN <<[type |-> "wrong_dtype", column |-> col,
                    expected |-> expected_dtype,
                    actual |-> d.col[col].dtype]>> \o rest
            ELSE rest

Schema_validate(s, d) ==
    LET errors == MissingErrors(s.required, d) \o TypeErrors(s.columns, d)
    IN [status |-> IF errors # <<>> THEN "fail" ELSE "pass", errors |-> errors]

\* ----------------------------------------------------------- cli.validate
\* any_fail without the schema's status
AnyFailRulesOnly(rs, sr) == \E i \in DOMAIN rs : rs[i].status = "fail"

\* any_fail of the exit code
AnyFail(rs, sr) ==
    (\E i \in DOMAIN rs : rs[i].status = "fail") \/ sr.status = "fail"

\* generate_reports: the files it writes
GenerateReports(html, json) ==
    (IF json THEN {"json"} ELSE {}) \cup (IF html THEN {"html"} ELSE {})

\* --------------------------------------------------------------- inputs
\* Sequences over S of length at most n
SeqsUpTo(S, n) == UNION {[1..k -> S] : k \in 0..n}

\* A dict with an optional key: the key left out, or set to a value of S
Opt(key, S) == {<<>>} \cup {key :> v : v \in S}

ColumnNames == {"x", "y"}

\* Cell values by dtype: an int64 column holds ints, a float64 column
\* numbers and NaN, an object column strings and None.
IntVals == {Num(1), Num(2), Num(3)}
FloatVals == IntVals \cup {Null}
ObjectVals == {Null, Str(<<"a">>), Str(<<"2">>)}
KeyVals == {Num(1), Num(2)}

Column(dtype, vals) == [dtype |-> dtype, vals |-> vals]

XColumns(n) ==
    {Column(T_int64, v) : v \in [1..n -> IntVals]}
    \cup {Column(T_float64, v) : v \in [1..n -> FloatVals]}
    \cup {Column(T_object, v) : v \in [1..n -> ObjectVals]}

YColumns(n) == {Column(T_int64, v) : v \in [1..n -> KeyVals]}

\* A frame of n rows with column x and, optionally, column y
Frame(n, cx, cy) ==
    [nrows |-> n,
     col |-> IF cy = None THEN ("x" :> cx) ELSE ("x" :> cx) @@ ("y" :> cy[1])]

EvalDatasets ==
    UNION {{Frame(n, cx, cy) :
              cx \in XColumns(n), cy \in {None} \cup {Some(c) : c \in YColumns(n)}} :
           n \in 0..MaxRows}

Rule(name, type) == [name |-> name, type |-> type]

RegexRules ==
    {Rule("r", "regex") @@ ("column" :> c) @@ ("pattern" :> p) @@ o :
        c \in ColumnNames, p \in {<<"A">>, <<"2">>},
        o \in {<<>>, "flags" :> S_IGNORECASE, "fail_on_match" :> TRUE}}

NumericRangeRules ==
    {Rule("r", "numeric_range") @@ ("column" :> c) @@ lo @@ hi @@ inc :
        c \in ColumnNames, lo \in Opt("min", {Fin(2)}), hi \in Opt("max", {Fin(2)}),
        inc \in Opt("inclusive", BOOLEAN)}

AllowedValuesRules ==
    {Rule("r", "allowed_values") @@ ("column" :> c) @@ ("values" :> v) :
        c \in ColumnNames, v \in {{Num(1), Num(2)}, {Str(<<"a">>)}}}

NullFractionRules ==
    {Rule("r", "null_fraction") @@ ("column" :> c) @@ ("max_fraction" :> f) :
        c \in ColumnNames, f \in {Zero, Frac(1, 2)}}

UniqueFractionRules ==
    {Rule("r", "unique_fraction") @@ ("column" :> c) @@ ("min_fraction" :> f) :
        c \in ColumnNames, f \in {Frac(1, 2), Frac(1, 1)}}

LengthRangeRules ==
    {Rule("r", "length_range") @@ ("column" :> c) @@ lo @@ hi :
        c \in ColumnNames, lo \in Opt("min_len", {Fin(2)}),
        hi \in Opt("max_len", {Fin(1)})}

DuplicateRowsRules ==
    {Rule("r", "duplicate_rows") @@ s @@ f :
        s \in Opt("subset", {<<"x">>, <<"y">>, <<"x", "y">>}),
        f \in Opt("max_fraction", {Frac(1, 2)})}

EvalRules ==
    RegexRules \cup NumericRangeRules \cup AllowedValuesRules
    \cup NullFractionRules \cup UniqueFractionRules \cup LengthRangeRules
    \cup DuplicateRowsRules

NoSchema == [columns |-> <<>>, required |-> <<>>]
NoSchemaResults == [status |-> "unset", errors |-> <<>>]
NoOutcome == [raised |-> FALSE, value |-> <<>>]

\* ------------------------------------------------------ one evaluator
\* A rule evaluator called on its own, as the tests of rules.py do through
\* a one-rule list.
InitEval ==
    /\ df \in EvalDatasets
    /\ rules_cfg \in {<<r>> : r \in EvalRules}
    /\ schema = NoSchema
    /\ report = FALSE
    /\ report_json = FALSE
    /\ pc = "eval"
    /\ results = <<>>
    /\ schema_results = NoSchemaResults
    /\ exit_code = None
    /\ exc = NoExc
    /\ out = NoOutcome
    /\ written = {}

Evaluate ==
    /\ pc = "eval"
    /\ out' = Dispatch(rules_cfg[1]["type"], df, rules_cfg[1])
    /\ pc' = "evaluated"
    /\ UNCHANGED <<df, schema, rules_cfg, report, report_json, results,
                   schema_results, exit_code, exc, written>>

NextEval == Evaluate

SpecEval == InitEval /\ [][NextEval]_vars

\* ------------------------------------------------------ Schema.validate
\* on its own: only the names and dtypes of the columns are read.
DTypes == {T_int64, T_int32, T_float64, T_float32, T_object, T_string}
Tags == {T_int64, T_int, T_float64, T_float, T_string}

OptColumns == {None} \cup {Some(Column(t, <<>>)) : t \in DTypes}

SchemaDatasets ==
    {[nrows |-> 0,
      col |-> (IF cx = None THEN <<>> ELSE ("x" :> cx[1]))
              @@ (IF cy = None THEN <<>> ELSE ("y" :> cy[1]))] :
        cx \in OptColumns, cy \in OptColumns}

\* The columns mappings over the column names: no key twice
ColumnMappings ==
    {<<>>}
    \cup {<<<<c, t>>>> : c \in ColumnNames, t \in Tags}
    \cup {m \in {<<<<c1, t1>>, <<c2, t2>>>> :
                    c1 \in ColumnNames, c2 \in ColumnNames, t1 \in Tags, t2 \in Tags} :
            m[1][1] # m[2][1]}

Schemas ==
    {[columns |-> m, required |-> r] :
        m \in ColumnMappings, r \in SeqsUpTo(ColumnNames, MaxRequired)}

InitSchema ==
    /\ df \in SchemaDatasets
    /\ schema \in Schemas
    /\ rules_cfg = <<>>
    /\ report = FALSE
    /\ report_json = FALSE
    /\ pc = "schema"
    /\ results = <<>>
    /\ schema_results = NoSchemaResults
    /\ exit_code = None
    /\ exc = NoExc
    /\ out = NoOutcome
    /\ written = {}

\* schema_results = schema_obj.validate(df)
SchemaValidate ==
    /\ pc = "schema"
    /\ schema_results' = Schema_validate(schema, df)
    /\ pc' = "reports"
    /\ UNCHANGED <<df, schema, rules_cfg, report, report_json, results,
                   exit_code, exc, out, written>>

NextSchema == SchemaValidate

SpecSchema == InitSchema /\ [][NextSchema]_vars

\* --------------------------------------------------- the validate command
CliDatasets ==
    UNION {{Frame(n, Column(T_object, v), None) :
              v \in [1..n -> {Null, Str(<<"a">>)}]} : n \in 0..MaxRows}

CliRules ==
    {Rule("allowed", "allowed_values") @@ ("column" :> "x")
        @@ ("values" :> {Str(<<"a">>)}),
     Rule("nulls", "null_fraction") @@ ("column" :> "x")
        @@ ("max_fraction" :> Frac(1, 2)),
     Rule("unique", "unique_fraction") @@ ("column" :> "x")
        @@ ("min_fraction" :> Frac(1, 1)),
     Rule("dups", "duplicate_rows"),
     Rule("absent", "regex") @@ ("column" :> "y") @@ ("pattern" :> <<"a">>),
     Rule("unknown", "bogus")}

CliSchemas ==
    {[columns |-> <<<<"x", T_string>>>>, required |-> <<"x">>],
     [columns |-> <<<<"x", T_int64>>>>, required |-> <<>>],
     [columns |-> <<<<"x", T_string>>>>, required |-> <<"y">>]}

\* The state after read_dataframe, load_schema and load_rules_config
Init ==
    /\ df \in CliDatasets
    /\ schema \in CliSchemas
    /\ rules_cfg \in SeqsUpTo(CliRules, MaxRules)
    /\ report \in BOOLEAN
    /\ report_json \in BOOLEAN
    /\ pc = "apply_rules"
    /\ results = <<>>
    /\ schema_results = NoSchemaResults
    /\ exit_code = None
    /\ exc = NoExc
    /\ out = NoOutcome
    /\ written = {}

\* One turn of the loop of apply_rules: the next rule's kind is looked up
\* (ValueError when it is not registered), its evaluator is called, and the
\* result is appended. An exception leaves apply_rules and the command;
\* `results` keeps what the loop had appended when it was raised.
ApplyRulesStep ==
    /\ pc = "apply_rules"
    /\ Len(results) < Len(rules_cfg)
    /\ LET rule == rules_cfg[Len(results) + 1]
           rtype == rule["type"]
       IN IF rtype \notin RULE_DISPATCH
          THEN /\ exc' = Raise("ValueError", "Unknown rule type", {rtype}).exc
               /\ pc' = "raised"
               /\ UNCHANGED results
          ELSE LET result == Dispatch(rtype, df, rule)
               IN IF result.raised
                  THEN /\ exc' = result.exc
                       /\ pc' = "raised"
                       /\ UNCHANGED results
                  ELSE /\ results' = Append(results, result.value)
                       /\ UNCHANGED <<exc, pc>>
    /\ UNCHANGED <<df, schema, rules_cfg, report, report_json,
                   schema_results, exit_code, out, written>>

\* return results
ApplyRulesReturn ==
    /\ pc = "apply_rules"
    /\ Len(results) = Len(rules_cfg)
    /\ pc' = "schema"
    /\ UNCHANGED <<df, schema, rules_cfg, report, report_json, results,
                   schema_results, exit_code, exc, out, written>>

\* if report or report_json: generate_reports(...)
Reports ==
    /\ pc = "reports"
    /\ written' = IF report \/ report_json
                  THEN GenerateReports(report, report_json) ELSE written
    /\ pc' = "exit"
    /\ UNCHANGED <<df, schema, rules_cfg, report, report_json, results,
                   schema_results, exit_code, exc, out>>

\* raise typer.Exit(code=1) when anything failed; a normal return, exit
\* code 0, otherwise
Exit ==
    /\ pc = "exit"
    /\ exit_code' = Some(IF AnyFail(results, schema_results) THEN 1 ELSE 0)
    /\ pc' = "done"
    /\ UNCHANGED <<df, schema, rules_cfg, report, report_json, results,
                   schema_results, exc, out, written>>

Next ==
    \/ ApplyRulesStep
    \/ ApplyRulesReturn
    \/ SchemaValidate
    \/ Reports
    \/ Exit

Spec == Init /\ [][Next]_vars

\* ------------------------------------------- claims about one evaluator
TheRule == rules_cfg[1]
Evaluated(kind) == pc = "evaluated" /\ TheRule["type"] = kind

\* The columns a rule names: its column parameter, or the members of subset
ReferencedColumns(rule) ==
    (IF "column" \in DOMAIN rule THEN {rule["column"]} ELSE {})
    \cup (IF "subset" \in DOMAIN rule THEN SeqToSet(rule["subset"]) ELSE {})

ColumnsExist(rule) == ReferencedColumns(rule) \subseteq Columns(df)

TargetVals == df.col[TheRule["column"]].vals

NumericColumn == \A i \in 1..RowCount(df) : TargetVals[i].k = "num"

\* The rows outside the range, from the rule's own keys
OutOfRange(v) ==
    LET inclusive == IF "inclusive" \in DOMAIN TheRule THEN TheRule["inclusive"] ELSE TRUE
        below == "min" \in DOMAIN TheRule /\
                 (IF inclusive THEN v < TheRule["min"].n ELSE v <= TheRule["min"].n)
        above == "max" \in DOMAIN TheRule /\
                 (IF inclusive THEN v > TheRule["max"].n ELSE v >= TheRule["max"].n)
    IN below \/ above

\* C5: on a column of numbers numeric_range counts the rows with value < min
\* or value > max when inclusive, and value <= min or value >= max when
\* not; a bound left out does not bound; status is fail iff the count > 0.
C5_NumericRangeCount ==
    (Evaluated("numeric_range") /\ ColumnsExist(TheRule) /\ NumericColumn) =>
        /\ ~out.raised
        /\ out.value.n_violations =
             Cardinality({i \in 1..RowCount(df) : OutOfRange(TargetVals[i].n)})
        /\ (out.value.status = "fail") <=> (out.value.n_violations > 0)
        /\ out.value.status \in {"pass", "fail"}

\* An exclusive range over two rows, one of them on the bound: only the
\* row on the bound is counted.
C5_Witness ==
    /\ Evaluated("numeric_range") /\ ColumnsExist(TheRule) /\ NumericColumn
    /\ "inclusive" \in DOMAIN TheRule /\ ~TheRule["inclusive"]
    /\ "min" \in DOMAIN TheRule /\ "max" \notin DOMAIN TheRule
    /\ RowCount(df) = 2
    /\ TargetVals[1].n = TheRule["min"].n /\ TargetVals[2].n > TheRule["min"].n
    /\ ~out.raised /\ out.value.n_violations = 1 /\ out.value.status = "fail"

\* C6: allowed_values counts the rows whose value is not in the allowed set;
\* status is pass iff every value is in the set.
C6_AllowedValuesCount ==
    (Evaluated("allowed_values") /\ ColumnsExist(TheRule)) =>
        /\ ~out.raised
        /\ out.value.n_violations =
             Cardinality({i \in 1..RowCount(df) : TargetVals[i] \notin TheRule["values"]})
        /\ (out.value.status = "pass") <=>
             (\A i \in 1..RowCount(df) : TargetVals[i] \in TheRule["values"])
        /\ out.value.status \in {"pass", "fail"}

\* One value outside the set after two values inside it: fail, one
\* violation.
C6_Witness ==
    /\ Evaluated("allowed_values") /\ ColumnsExist(TheRule)
    /\ RowCount(df) = 3
    /\ TargetVals[1] \in TheRule["values"] /\ TargetVals[2] \in TheRule["values"]
    /\ TargetVals[1] # TargetVals[2]
    /\ TargetVals[3] \notin TheRule["values"]
    /\ ~out.raised /\ out.value.n_violations = 1 /\ out.value.status = "fail"

\* C7: every evaluator returns 0 <= n_violations <= row count and
\* fraction_violations = n_violations / row count, with fraction 0.0 and
\* n_violations 0 on the empty dataset.
C7_FractionIsCountOverRows ==
    (pc = "evaluated" /\ ColumnsExist(TheRule)) =>
        /\ ~out.raised
        /\ out.value.n_violations >= 0
        /\ out.value.n_violations <= RowCount(df)
        /\ RowCount(df) > 0 =>
             FracEq(out.value.fraction_violations,
                    Frac(out.value.n_violations, RowCount(df)))
        /\ RowCount(df) = 0 =>
             /\ FracEq(out.value.fraction_violations, Zero)
             /\ out.value.n_violations = 0

\* C8: a rule that names a column the dataset lacks ends in an error that
\* names the rule and the column, and returns no RuleResult.
C8_MissingColumnIsNamed ==
    (pc = "evaluated" /\ ~ColumnsExist(TheRule)) =>
        /\ out.raised
        /\ TheRule["name"] \in out.exc.names
        /\ (ReferencedColumns(TheRule) \ Columns(df)) \subseteq out.exc.names

\* The rows whose value does not coerce to a number
NonCoercible == {i \in 1..RowCount(df) : ToNumeric(TargetVals[i]).nan}

\* C9: in numeric_range every row whose value does not coerce to a number
\* (a null included) is a violation.
C9_NonCoercibleIsViolation ==
    (Evaluated("numeric_range") /\ ColumnsExist(TheRule)) =>
        /\ ~out.raised
        /\ out.value.n_violations >= Cardinality(NonCoercible)
        /\ NonCoercible # {} => out.value.status = "fail"

\* ------------------------------------------ claims about Schema.validate
SchemaValidated == pc = "reports"

Errors == schema_results.errors

\* The entries of the required list that are not columns of the dataset
AbsentRequired == SelectSeq(schema.required, LAMBDA c : c \notin Columns(df))

\* The place of a column in the columns mapping
MappingIndex(c) == CHOOSE i \in DOMAIN schema.columns : schema.columns[i][1] = c

\* From place k + 1 on, the errors are wrong_dtype errors of columns of the
\* dataset that the mapping names, in the order of the mapping, each with
\* the mapping's tag and the column's dtype; status is fail iff there is
\* an error.
TypeErrorsFollow(k) ==
    /\ \A i \in (k + 1)..Len(Errors) :
          /\ Errors[i].type = "wrong_dtype"
          /\ Errors[i].column \in Columns(df)
          /\ \E j \in DOMAIN schema.columns :
                /\ schema.columns[j][1] = Errors[i].column
                /\ schema.columns[j][2] = Errors[i].expected
          /\ Errors[i].actual = df.col[Errors[i].column].dtype
    /\ \A i, j \in (k + 1)..Len(Errors) :
          i < j => MappingIndex(Errors[i].column) < MappingIndex(Errors[j].column)
    /\ (schema_results.status = "fail") <=> (Errors # <<>>)
    /\ schema_results.status \in {"pass", "fail"}

Category(t) ==
    IF StartsWith(t, T_int) THEN "integer"
    ELSE IF StartsWith(t, T_float) THEN "float"
    ELSE IF t \in {T_string, T_object} THEN "text"
    ELSE "other"

\* C10: a present column gets a wrong_dtype error exactly when its dtype is
\* not in the category of the expected tag.
C10_DtypeByCategory ==
    SchemaValidated =>
        \A j \in DOMAIN schema.columns :
            LET col == schema.columns[j][1]
                expected == schema.columns[j][2]
            IN col \in Columns(df) =>
                 ((\E i \in 1..Len(Errors) :
                      Errors[i].type = "wrong_dtype" /\ Errors[i].column = col)
                  <=> Category(df.col[col].dtype) # Category(expected))

\* --------------------------------------- claims about the validate command
Registered(rule) == rule["type"] \in RULE_DISPATCH

\* apply_rules has returned or raised
ApplyRulesEnded == pc \notin {"apply_rules", "eval", "evaluated"}
ApplyRulesReturned == ApplyRulesEnded /\ pc # "raised"

\* C1: when every rule has a registered kind and names existing columns,
\* apply_rules returns one result per rule in the order of the list, the
\* i-th with the name and kind of the i-th rule and equal to what the
\* rule's evaluator returns on its own.
C1_OneResultPerRule ==
    (ApplyRulesEnded /\ rules_cfg # <<>>
     /\ \A i \in DOMAIN rules_cfg : Registered(rules_cfg[i]) /\ ColumnsExist(rules_cfg[i]))
    =>
        /\ ApplyRulesReturned
        /\ Len(results) = Len(rules_cfg)
        /\ \A i \in DOMAIN rules_cfg :
              /\ results[i].name = rules_cfg[i]["name"]
              /\ results[i].type = rules_cfg[i]["type"]
              /\ Return(results[i]) = Dispatch(rules_cfg[i]["type"], df, rules_cfg[i])

\* C2: a rule of an unregistered kind anywhere in the list makes apply_rules
\* fail with the unknown-kind error naming that kind, before any result is
\* produced, and nothing is returned. Stated for the lists whose rules of
\* registered kinds evaluate without an error of their own.
C2_UnknownKindBeforeAnyResult ==
    (/\ ApplyRulesEnded
     /\ \E i \in DOMAIN rules_cfg : ~Registered(rules_cfg[i])
     /\ \A i \in DOMAIN rules_cfg :
           Registered(rules_cfg[i]) =>
               ~Dispatch(rules_cfg[i]["type"], df, rules_cfg[i]).raised)
    =>
        /\ ~ApplyRulesReturned
        /\ exc.type = "ValueError" /\ exc.msg = "Unknown rule type"
        /\ exc.names # {}
        /\ exc.names \subseteq
             {rules_cfg[i]["type"] : i \in {j \in DOMAIN rules_cfg : ~Registered(rules_cfg[j])}}
        /\ results = <<>>

\* C3: a run that completes exits with 1 iff the schema result or a rule
\* result is fail, and with 0 otherwise; the exit code is a function of the
\* dataset, the schema and the set of rules, whatever the order of the
\* rules and whether or not reports were asked for.
C3_ExitCode ==
    pc = "done" =>
        /\ exit_code \in {Some(0), Some(1)}
        /\ (exit_code = Some(1)) <=>
              (schema_results.status = "fail"
               \/ \E i \in DOMAIN results : results[i].status = "fail")
        /\ (exit_code = Some(1)) <=>
              (Schema_validate(schema, df).status = "fail"
               \/ \E r \in SeqToSet(rules_cfg) :
                     LET o == Dispatch(r["type"], df, r)
                     IN ~o.raised /\ o.value.status = "fail")

\* A run with a report that exits with 1 on the second rule alone
C3_Witness ==
    /\ pc = "done"
    /\ exit_code = Some(1)
    /\ schema_results.status = "pass"
    /\ Len(results) = 2
    /\ results[1].status = "pass"
    /\ results[2].status = "fail"
    /\ report_json
====
